---------------------------- MODULE Spec2Model ----------------------------
(***************************************************************************)
(* A model of src/rf_mapping/activation_rank.py: the three classes         *)
(* LayerOutputInspector, MaxHeap and SpatialIndexConversion.  The classes  *)
(* never interact, so each has a specification of its own over the shared  *)
(* variable list; the variables of the other two stay at their constructed *)
(* values.                                                                 *)
(***************************************************************************)
EXTENDS Integers, Sequences, FiniteSets

VARIABLES
    \* LayerOutputInspector
    model,          \* self.model: the layer tree
    layer_type,     \* self.layer_type
    hooks,          \* per leaf (execution order): number of forward hooks registered
    layer_outputs,  \* self.layer_outputs
    inspected,      \* what the last inspect() call returned, at the time it returned
    ncalls,         \* number of inspect() calls made so far
    nregs,          \* number of register_forward_hook_to_layers() calls after __init__
    ndirect,        \* number of hook_function() calls made by the caller itself
    \* MaxHeap
    h,              \* self.h: the array heapq works on
    length,         \* self.length (N)
    added,          \* history: the elements passed to add(), in call order
    top,            \* what the last getTop() call returned
    lastOp,         \* "init", "add" or "getTop"
    \* SpatialIndexConversion
    sic_model,      \* self.model
    image_shape,    \* self.image_shape
    layer_indicies, \* self.layer_indicies
    output_shapes,  \* self.output_shapes
    rf_sizes,       \* self.rf_sizes
    pc,             \* "idle": no call in progress; "returned": a call has just ended
    call,           \* the method just called and its arguments
    ret             \* how it ended: returned a value, or raised

inspVars == <<model, layer_type, hooks, layer_outputs, inspected, ncalls, nregs, ndirect>>
heapVars == <<h, length, added, top, lastOp>>
sicFields == <<sic_model, image_shape, layer_indicies, output_shapes, rf_sizes>>
sicVars == <<sic_model, image_shape, layer_indicies, output_shapes, rf_sizes, pc, call, ret>>
vars == <<model, layer_type, hooks, layer_outputs, inspected, ncalls, nregs, ndirect,
          h, length, added, top, lastOp,
          sic_model, image_shape, layer_indicies, output_shapes, rf_sizes, pc, call, ret>>

\* ------------------------------------------------------------------ bounds
MaxCalls == 3       \* inspect() calls per inspector
NumImages == 2      \* distinct input images
MaxRegs == 1        \* register_forward_hook_to_layers() calls after __init__
MaxDirect == 1      \* direct hook_function() calls
MaxN == 3           \* largest MaxHeap capacity
MaxElem == 3        \* heap elements are 1..MaxElem
MaxAdds == 4        \* add() calls per heap
MaxCoord == 5       \* coordinates are 0..MaxCoord
MaxStride == 2
MaxKernel == 3
MaxPadding == 1
MaxFlat == 9        \* flat integer indices are 0..MaxFlat

\* ------------------------------------------------------- layers and models
Leaf(kind) == [kind |-> kind, children |-> <<>>]
Container(kind, children) == [kind |-> kind, children |-> children]

\* An AlexNet-like tree: features, avgpool, classifier.
AlexLike ==
    Container("AlexNet",
        << Container("Sequential", << Leaf("Conv2d"), Leaf("ReLU"), Leaf("MaxPool2d"),
                                      Leaf("Conv2d"), Leaf("ReLU") >>),
           Leaf("AdaptiveAvgPool2d"),
           Container("Sequential", << Leaf("Dropout"), Leaf("Linear"), Leaf("ReLU") >>) >>)
\* Three convolutions in nested blocks.
ThreeConv ==
    Container("Sequential",
        << Container("Sequential", << Leaf("Conv2d"), Leaf("BatchNorm2d"), Leaf("ReLU") >>),
           Container("Sequential", << Leaf("Conv2d"), Leaf("BatchNorm2d"), Leaf("ReLU") >>),
           Leaf("Conv2d") >>)
\* The model itself is a leaf.
SingleConv == Leaf("Conv2d")
\* A chain of two convolutions, with an empty container (a leaf that is no layer of
\* any requested type).
TwoConv ==
    Container("Sequential", << Leaf("Conv2d"), Leaf("Sequential"), Leaf("Conv2d") >>)

Models == {AlexLike, ThreeConv, SingleConv, TwoConv}
LayerTypes == {"Conv2d", "ReLU", "MaxPool2d", "Linear"}
Images == 1..NumImages

\* isinstance(layer, layer_type), for the layer classes above (none subclasses another)
IsInstance(layer, type) == layer.kind = type

RECURSIVE Leaves(_)
\* the leaves of a layer tree, in the order register_forward_hook_to_layers visits
\* them, which is the order a forward pass runs them
Leaves(layer) ==
    IF Len(layer.children) = 0
    THEN <<layer>>
    ELSE LET RECURSIVE Cat(_)
             Cat(i) == IF i > Len(layer.children) THEN <<>>
                       ELSE Leaves(layer.children[i]) \o Cat(i + 1)
         IN  Cat(1)

\* the number of leaves before child i of a layer with children
LeavesBefore(layer, i) ==
    IF i = 1 THEN 0
    ELSE Len(Leaves([layer EXCEPT !.children = SubSeq(layer.children, 1, i - 1)]))

RECURSIVE Spans(_, _)
\* every layer of the tree (the root, each container, each leaf), as the span
\* <<first, last>> of the leaves under it; offset leaves come before the layer
Spans(layer, offset) ==
    {<<offset + 1, offset + Len(Leaves(layer))>>}
    \cup (IF Len(layer.children) = 0 THEN {}
          ELSE UNION {Spans(layer.children[i], offset + LeavesBefore(layer, i)) :
                        i \in 1..Len(layer.children)})

NoHooks(m) == [i \in 1..Len(Leaves(m)) |-> 0]

\* register_forward_hook_to_layers(layer), layer the layer of m with the leaves of
\* span under it: one more hook on each of those leaves that is of the type
RegisterForwardHookToLayers(hk, m, span, type) ==
    [i \in 1..Len(Leaves(m)) |->
        IF i \in span[1]..span[2] /\ IsInstance(Leaves(m)[i], type)
        THEN hk[i] + 1 ELSE hk[i]]

\* the whole tree, as a span
Root(m) == <<1, Len(Leaves(m))>>

\* hook_function(module, ten_in, ten_out): a copy of the output is appended
HookFunction(outs, m, i, image) ==
    Append(outs, [layer |-> i, kind |-> Leaves(m)[i].kind, image |-> image])

\* the forward pass self.model(image_tensor): each leaf runs in order, and each hook
\* registered on it calls hook_function
ForwardPass(m, hk, outs, image) ==
    LET RECURSIVE Fire(_, _, _)
        Fire(i, k, acc) == IF k = 0 THEN acc
                           ELSE Fire(i, k - 1, HookFunction(acc, m, i, image))
        RECURSIVE Run(_, _)
        Run(i, acc) ==
            IF i > Len(Leaves(m)) THEN acc
            ELSE Run(i + 1, Fire(i, hk[i], acc))
    IN  Run(1, outs)

\* n: the number of leaf layers of the requested type
NumMatching(m, type) == Cardinality({i \in 1..Len(Leaves(m)) : IsInstance(Leaves(m)[i], type)})

\* ------------------------------------------------ constructed, idle objects
InspIdle ==
    /\ model = SingleConv
    /\ layer_type = "Conv2d"
    /\ hooks = RegisterForwardHookToLayers(NoHooks(SingleConv), SingleConv,
                                          Root(SingleConv), "Conv2d")
    /\ layer_outputs = <<>>
    /\ inspected = <<>>
    /\ ncalls = 0
    /\ nregs = 0
    /\ ndirect = 0

\* LayerOutputInspector.__init__
InspInit ==
    /\ model \in Models
    /\ layer_type \in LayerTypes
    /\ hooks = RegisterForwardHookToLayers(NoHooks(model), model, Root(model), layer_type)
    /\ layer_outputs = <<>>
    /\ inspected = <<>>
    /\ ncalls = 0
    /\ nregs = 0
    /\ ndirect = 0

\* LayerOutputInspector.inspect(image): the forward pass appends to
\* self.layer_outputs, and the list itself is returned
Inspect(image) ==
    /\ ncalls < MaxCalls
    /\ layer_outputs' = ForwardPass(model, hooks, layer_outputs, image)
    /\ inspected' = layer_outputs'
    /\ ncalls' = ncalls + 1
    /\ UNCHANGED <<model, layer_type, hooks, nregs, ndirect>>
    /\ UNCHANGED <<heapVars, sicVars>>

\* a caller's own call of register_forward_hook_to_layers(layer), on a layer of
\* self.model: the hooks it registers are added to those already there
CallRegisterForwardHookToLayers(span) ==
    /\ nregs < MaxRegs
    /\ hooks' = RegisterForwardHookToLayers(hooks, model, span, layer_type)
    /\ nregs' = nregs + 1
    /\ UNCHANGED <<model, layer_type, layer_outputs, inspected, ncalls, ndirect>>
    /\ UNCHANGED <<heapVars, sicVars>>

\* a caller's own call of hook_function(module, ten_in, ten_out), outside a forward
\* pass: ten_out is appended as if the leaf had just run
CallHookFunction(i, image) ==
    /\ ndirect < MaxDirect
    /\ layer_outputs' = HookFunction(layer_outputs, model, i, image)
    /\ ndirect' = ndirect + 1
    /\ UNCHANGED <<model, layer_type, hooks, inspected, ncalls, nregs>>
    /\ UNCHANGED <<heapVars, sicVars>>

InspNext ==
    \/ \E image \in Images : Inspect(image)
    \/ \E span \in Spans(model, 0) : CallRegisterForwardHookToLayers(span)
    \/ \E i \in 1..Len(Leaves(model)), image \in Images : CallHookFunction(i, image)

\* ------------------------------------------------------------------ MaxHeap
Elems == 1..MaxElem

At(heap, pos) == heap[pos + 1]                          \* heap[pos], positions from 0
Set0(heap, pos, v) == [heap EXCEPT ![pos + 1] = v]      \* heap[pos] = v

\* heapq._siftdown(heap, startpos, pos)
RECURSIVE SiftdownLoop(_, _, _, _)
SiftdownLoop(heap, startpos, pos, newitem) ==
    IF pos > startpos
    THEN LET parentpos == (pos - 1) \div 2
             parent == At(heap, parentpos)
         IN  IF newitem < parent
             THEN SiftdownLoop(Set0(heap, pos, parent), startpos, parentpos, newitem)
             ELSE Set0(heap, pos, newitem)
    ELSE Set0(heap, pos, newitem)

Siftdown(heap, startpos, pos) == SiftdownLoop(heap, startpos, pos, At(heap, pos))

\* heapq._siftup(heap, pos)
RECURSIVE SiftupLoop(_, _, _, _, _)
SiftupLoop(heap, startpos, pos, childpos, newitem) ==
    IF childpos < Len(heap)
    THEN LET rightpos == childpos + 1
             c == IF rightpos < Len(heap) /\ ~(At(heap, childpos) < At(heap, rightpos))
                  THEN rightpos ELSE childpos
         IN  SiftupLoop(Set0(heap, pos, At(heap, c)), startpos, c, 2 * c + 1, newitem)
    ELSE Siftdown(Set0(heap, pos, newitem), startpos, pos)

Siftup(heap, pos) == SiftupLoop(heap, pos, pos, 2 * pos + 1, At(heap, pos))

\* heapq.heappush(heap, item)
Heappush(heap, item) == Siftdown(Append(heap, item), 0, Len(heap))

\* heapq.heappushpop(heap, item): the heap afterwards (the popped item is dropped by add)
Heappushpop(heap, item) ==
    IF Len(heap) > 0 /\ heap[1] < item
    THEN Siftup(Set0(heap, 0, item), 0)
    ELSE heap

\* sorted(seq, reverse=True)
RECURSIVE SortedReverse(_)
SortedReverse(seq) ==
    IF Len(seq) = 0 THEN <<>>
    ELSE LET i == CHOOSE i \in 1..Len(seq) : \A j \in 1..Len(seq) : seq[j] <= seq[i]
             rest == [k \in 1..(Len(seq) - 1) |-> IF k < i THEN seq[k] ELSE seq[k + 1]]
         IN  <<seq[i]>> \o SortedReverse(rest)

\* heapq.nlargest(n, iterable): the n largest, largest first
Nlargest(n, seq) ==
    LET s == SortedReverse(seq)
    IN  IF n <= 0 THEN <<>> ELSE IF n >= Len(s) THEN s ELSE SubSeq(s, 1, n)

\* a plausible slip in add: "<=" for "<" in the capacity test
MaxHeapAddOffByOne(heap, N, element) ==
    IF Len(heap) <= N THEN Heappush(heap, element) ELSE Heappushpop(heap, element)

\* MaxHeap.add(element): the heap it leaves
MaxHeapAdd(heap, N, element) ==
    IF Len(heap) < N THEN Heappush(heap, element) ELSE Heappushpop(heap, element)

HeapIdle ==
    /\ h = <<>>
    /\ length = 0
    /\ added = <<>>
    /\ top = <<>>
    /\ lastOp = "init"

\* MaxHeap.__init__(N)
HeapInit ==
    /\ h = <<>>
    /\ length \in 0..MaxN
    /\ added = <<>>
    /\ top = <<>>
    /\ lastOp = "init"

\* MaxHeap.add(element)
Add(element) ==
    /\ Len(added) < MaxAdds
    /\ h' = MaxHeapAdd(h, length, element)
    /\ added' = Append(added, element)
    /\ lastOp' = "add"
    /\ UNCHANGED <<length, top>>
    /\ UNCHANGED <<inspVars, sicVars>>

\* MaxHeap.getTop()
GetTop ==
    /\ top' = Nlargest(length, h)
    /\ lastOp' = "getTop"
    /\ UNCHANGED <<h, length, added>>
    /\ UNCHANGED <<inspVars, sicVars>>

HeapNext ==
    \/ \E element \in Elems : Add(element)
    \/ GetTop

\* ----------------------------------------------------- SpatialIndexConversion
\* Python values.  A value is [type, val, den]: val is a sequence of integers and
\* den a denominator, so that element i of a tuple is the number val[i]/den.  An
\* int is <<i>> over 1; a str is the sequence of its code points; a float pair
\* produced by transform is held over 2 (kernel_size-1 is halved by true division).
PyInt(i) == [type |-> "int", val |-> <<i>>, den |-> 1]
PyTuple(seq) == [type |-> "tuple", val |-> seq, den |-> 1]
PyList(seq) == [type |-> "list", val |-> seq, den |-> 1]
PyStr(codes) == [type |-> "str", val |-> codes, den |-> 1]
PyFloatPair(a2, b2) == [type |-> "tuple", val |-> <<a2, b2>>, den |-> 2]
PyNone == [type |-> "NoneType", val |-> <<>>, den |-> 1]

Return(value) == [outcome |-> "return", exc |-> "", value |-> value]
Raise(exc) == [outcome |-> "raise", exc |-> exc, value |-> PyNone]

Coords == 0..MaxCoord
Digits == 48..57        \* the code points of "0".."9"

\* the indices handed to _process_index and the projections
Indices ==
    {PyInt(i) : i \in 0..MaxFlat}
    \cup {PyTuple(<<a, b>>) : a \in Coords, b \in Coords}
    \cup {PyTuple(<<0>>), PyTuple(<<1, 2, 3>>), PyList(<<1, 2>>), PyNone}
    \cup {PyStr(<<>>), PyStr(<<55>>), PyStr(<<49, 50>>),            \* "", "7", "12"
          PyStr(<<97, 98>>), PyStr(<<97, 98, 99>>), PyStr(<<49, 97>>)} \* "ab", "abc", "1a"

\* Layers.  stride, kernel_size and padding are <<vertical, horizontal>> when the
\* layer holds them as 2-tuples (nn.Conv2d always does), <<n>> when it holds the bare
\* int it was constructed with (nn.MaxPool2d and nn.AvgPool2d keep what they are
\* given), and <<>> for a layer kind that has no such attribute.
PassThroughKinds ==
    {"Sequential", "ModuleList", "Sigmoid", "ReLU", "Tanh", "Softmax2d",
     "BatchNorm2d", "Dropout2d"}
PoolKinds == {"MaxPool2d", "AvgPool2d"}
SpatialKinds == {"Conv2d"} \cup PoolKinds
OtherKinds == {"Linear", "AdaptiveAvgPool2d", "Dropout"}

Layer(kind, stride, kernel_size, padding) ==
    [kind |-> kind, stride |-> stride, kernel_size |-> kernel_size, padding |-> padding]

StridePairs == {<<a, b>> : a \in 1..MaxStride, b \in 1..MaxStride}
KernelPairs == {<<k, k>> : k \in 1..MaxKernel} \cup {<<1, MaxKernel>>}
PaddingPairs == {<<p, p>> : p \in 0..MaxPadding} \cup {<<0, MaxPadding>>}

SicLayers ==
    {Layer(kind, s, k, p) : kind \in SpatialKinds, s \in StridePairs,
                            k \in KernelPairs, p \in PaddingPairs}
    \cup {Layer(kind, <<s>>, <<k>>, <<p>>) : kind \in PoolKinds, s \in 1..MaxStride,
                                             k \in 1..MaxKernel, p \in 0..MaxPadding}
    \cup {Layer(kind, <<>>, <<>>, <<>>) : kind \in PassThroughKinds \cup OtherKinds}

\* transform(x, stride, kernel_size, padding) = x*stride + (kernel_size-1)/2 - padding,
\* as twice its value (x is an integer coordinate)
Transform2(x, stride, kernel_size, padding) ==
    2 * x * stride + (kernel_size - 1) - 2 * padding

\* layer.stride[0] and the like succeed only on a 2-tuple; a bare int is not
\* subscriptable
Subscriptable(layer) ==
    Len(layer.stride) = 2 /\ Len(layer.kernel_size) = 2 /\ Len(layer.padding) = 2

\* the two transform(...) lines shared by the Conv2d and pool branches
TransformBoth(layer, vx, hx) ==
    IF Subscriptable(layer)
    THEN Return(PyFloatPair(
             Transform2(vx, layer.stride[1], layer.kernel_size[1], layer.padding[1]),
             Transform2(hx, layer.stride[2], layer.kernel_size[2], layer.padding[2])))
    ELSE Raise("TypeError")

\* In _one_forward_projection the local definition of transform is commented out and
\* the module defines no transform: the name is unbound where it is called.
ForwardTransformBound == FALSE

\* SpatialIndexConversion._one_forward_projection(layer, vx, hx)
OneForwardProjection(layer, vx, hx) ==
    IF layer.kind \in PassThroughKinds
    THEN Return(PyTuple(<<vx, hx>>))
    ELSE IF layer.kind = "Conv2d"
    THEN IF ForwardTransformBound THEN TransformBoth(layer, vx, hx) ELSE Raise("NameError")
    ELSE IF layer.kind \in {"MaxPool2d", "AvgPool2d"}
    THEN IF ForwardTransformBound THEN TransformBoth(layer, vx, hx) ELSE Raise("NameError")
    ELSE Raise("ValueError")

\* a plausible slip: the catch-all made to raise, as in the forward direction, without
\* a pass-through branch before it
OneBackwardProjectionRaising(layer, vx, hx) ==
    IF layer.kind = "Conv2d" THEN TransformBoth(layer, vx, hx)
    ELSE IF layer.kind = "MaxPool2d" THEN TransformBoth(layer, vx, hx)
    ELSE Raise("ValueError")

\* SpatialIndexConversion._one_backward_projection(layer, vx, hx)
OneBackwardProjection(layer, vx, hx) ==
    IF layer.kind = "Conv2d" THEN TransformBoth(layer, vx, hx)
    ELSE IF layer.kind = "MaxPool2d" THEN TransformBoth(layer, vx, hx)
    ELSE Return(PyTuple(<<vx, hx>>))

\* str.isnumeric(), on ASCII text
IsNumeric(codes) == Len(codes) > 0 /\ \A i \in 1..Len(codes) : codes[i] \in Digits

\* np.unravel_index(index, shape): row-major, for an integer index inside the shape;
\* anything that is not an integer is refused
UnravelIndex(index, shape) ==
    IF index.type # "int" THEN Raise("TypeError")
    ELSE IF index.val[1] >= shape[1] * shape[2] THEN Raise("ValueError")
    ELSE Return(PyTuple(<<index.val[1] \div shape[2], index.val[1] % shape[2]>>))

\* SpatialIndexConversion._process_index(index).  Only a str has isnumeric; a str has
\* a len; falling off the end returns None.
ProcessIndex(index, shape) ==
    IF index.type # "str" THEN Raise("AttributeError")
    ELSE IF IsNumeric(index.val) THEN UnravelIndex(index, shape)
    ELSE IF Len(index.val) = 2 THEN Return(index)
    ELSE Return(PyNone)

\* forward_projection and backward_projection: the index is normalised, and the
\* method ends there, returning None
Projection(index, shape) ==
    LET r == ProcessIndex(index, shape)
    IN  IF r.outcome = "raise" THEN r ELSE Return(PyNone)

\* the networks and image shapes a SpatialIndexConversion is constructed with
TwoConvChain ==
    << Layer("Conv2d", <<1, 1>>, <<3, 3>>, <<1, 1>>),
       Layer("Conv2d", <<1, 1>>, <<3, 3>>, <<1, 1>>) >>
ConvReluPool ==
    << Layer("Conv2d", <<2, 2>>, <<3, 3>>, <<0, 0>>),
       Layer("ReLU", <<>>, <<>>, <<>>),
       Layer("MaxPool2d", <<2>>, <<3>>, <<0>>) >>
SicModels == {TwoConvChain, ConvReluPool}
ImageShapes == {<<3, 3>>, <<2, 4>>}
MaxLayer == 2
LayerIds == 0..MaxLayer

NoLayer == Layer("none", <<>>, <<>>, <<>>)
NoCall == [op |-> "none", index |-> PyNone, layer |-> NoLayer, vx |-> 0, hx |-> 0,
           start_layer |-> 0, end_layer |-> 0]
NoRet == [outcome |-> "none", exc |-> "", value |-> PyNone]

SicIdle ==
    /\ sic_model = TwoConvChain
    /\ image_shape = <<3, 3>>
    /\ layer_indicies = <<>>
    /\ output_shapes = <<>>
    /\ rf_sizes = <<>>
    /\ pc = "idle"
    /\ call = NoCall
    /\ ret = NoRet

\* SpatialIndexConversion.__init__(model, image_shape)
SicInit ==
    /\ sic_model \in SicModels
    /\ image_shape \in ImageShapes
    /\ layer_indicies = <<>>
    /\ output_shapes = <<>>
    /\ rf_sizes = <<>>
    /\ pc = "idle"
    /\ call = NoCall
    /\ ret = NoRet

\* a plausible slip: _process_index caching the shape it unravelled against
CallProcessIndexCaching(index) ==
    /\ pc = "idle"
    /\ call' = [NoCall EXCEPT !.op = "_process_index", !.index = index]
    /\ ret' = ProcessIndex(index, image_shape)
    /\ pc' = "returned"
    /\ output_shapes' = Append(output_shapes, image_shape)
    /\ UNCHANGED <<sic_model, image_shape, layer_indicies, rf_sizes>>
    /\ UNCHANGED <<inspVars, heapVars>>

\* a call of _process_index(index)
CallProcessIndex(index) ==
    /\ pc = "idle"
    /\ call' = [NoCall EXCEPT !.op = "_process_index", !.index = index]
    /\ ret' = ProcessIndex(index, image_shape)
    /\ pc' = "returned"
    /\ UNCHANGED sicFields
    /\ UNCHANGED <<inspVars, heapVars>>

\* a call of _one_forward_projection(layer, vx, hx)
CallOneForward(layer, vx, hx) ==
    /\ pc = "idle"
    /\ call' = [NoCall EXCEPT !.op = "_one_forward_projection",
                              !.layer = layer, !.vx = vx, !.hx = hx]
    /\ ret' = OneForwardProjection(layer, vx, hx)
    /\ pc' = "returned"
    /\ UNCHANGED sicFields
    /\ UNCHANGED <<inspVars, heapVars>>

\* a call of _one_backward_projection(layer, vx, hx)
CallOneBackward(layer, vx, hx) ==
    /\ pc = "idle"
    /\ call' = [NoCall EXCEPT !.op = "_one_backward_projection",
                              !.layer = layer, !.vx = vx, !.hx = hx]
    /\ ret' = OneBackwardProjection(layer, vx, hx)
    /\ pc' = "returned"
    /\ UNCHANGED sicFields
    /\ UNCHANGED <<inspVars, heapVars>>

\* a call of forward_projection(index, start_layer, end_layer)
CallForwardProjection(index, start_layer, end_layer) ==
    /\ pc = "idle"
    /\ call' = [NoCall EXCEPT !.op = "forward_projection", !.index = index,
                              !.start_layer = start_layer, !.end_layer = end_layer]
    /\ ret' = Projection(index, image_shape)
    /\ pc' = "returned"
    /\ UNCHANGED sicFields
    /\ UNCHANGED <<inspVars, heapVars>>

\* a call of backward_projection(index, start_layer, end_layer)
CallBackwardProjection(index, start_layer, end_layer) ==
    /\ pc = "idle"
    /\ call' = [NoCall EXCEPT !.op = "backward_projection", !.index = index,
                              !.start_layer = start_layer, !.end_layer = end_layer]
    /\ ret' = Projection(index, image_shape)
    /\ pc' = "returned"
    /\ UNCHANGED sicFields
    /\ UNCHANGED <<inspVars, heapVars>>

\* the caller takes the result (or catches the exception) and goes on to a next call
Resume ==
    /\ pc = "returned"
    /\ pc' = "idle"
    /\ call' = NoCall
    /\ ret' = NoRet
    /\ UNCHANGED sicFields
    /\ UNCHANGED <<inspVars, heapVars>>

\* the calls a caller can make on an idle object, and its going on after one
SicNext ==
    \/ pc = "idle" /\ \E index \in Indices : CallProcessIndex(index)
    \/ pc = "idle" /\ \E layer \in SicLayers, vx \in Coords, hx \in Coords :
                          CallOneForward(layer, vx, hx)
    \/ pc = "idle" /\ \E layer \in SicLayers, vx \in Coords, hx \in Coords :
                          CallOneBackward(layer, vx, hx)
    \/ pc = "idle" /\ \E index \in Indices, s \in LayerIds, e \in LayerIds :
                          CallForwardProjection(index, s, e)
    \/ pc = "idle" /\ \E index \in Indices, s \in LayerIds, e \in LayerIds :
                          CallBackwardProjection(index, s, e)
    \/ Resume

\* ---------------------------------------------------------- specifications
InitInspector == InspInit /\ HeapIdle /\ SicIdle
InitHeap == InspIdle /\ HeapInit /\ SicIdle
InitSIC == InspIdle /\ HeapIdle /\ SicInit

SpecInspector == InitInspector /\ [][InspNext]_vars
SpecHeap == InitHeap /\ [][HeapNext]_vars
SpecSIC == InitSIC /\ [][SicNext]_vars

\* ------------------------------------------------------------------ claims
Returned(op) == pc = "returned" /\ call.op = op
OneStepOps == {"_one_forward_projection", "_one_backward_projection"}
ProjectionOps == {"forward_projection", "backward_projection"}

\* C1: on an inspector used through inspect() alone (no hook registered and no
\* hook_function called by hand after construction), every inspect() call, the 2nd
\* and later ones included, returns exactly n entries, n the number of leaf layers
\* of the requested type.
C1_InspectReturnsOnePerLayer ==
    (ncalls > 0 /\ nregs = 0 /\ ndirect = 0)
    => Len(inspected) = NumMatching(model, layer_type)

\* C2: for a layer kind that is none of Convolution, MaxPool, AveragePool or
\* PassThrough, both one-step transforms end in an error and return no coordinate.
C2_UnsupportedKindRaises ==
    (pc = "returned" /\ call.op \in OneStepOps
        /\ call.layer.kind \notin SpatialKinds \cup PassThroughKinds)
    => ret.outcome = "raise"

\* C3: for a Convolution, MaxPool or AveragePool layer, both one-step transforms
\* return x*stride + (kernel_size-1)/2 - padding on each axis.
C3_SpatialKindsTransformBothWays ==
    (pc = "returned" /\ call.op \in OneStepOps
        /\ call.layer.kind \in SpatialKinds /\ Len(call.layer.stride) = 2)
    => /\ ret.outcome = "return"
       /\ ret.value.type = "tuple"
       /\ Len(ret.value.val) = 2
       /\ 2 * ret.value.val[1] = ret.value.den *
              (2 * call.vx * call.layer.stride[1] + (call.layer.kernel_size[1] - 1)
                 - 2 * call.layer.padding[1])
       /\ 2 * ret.value.val[2] = ret.value.den *
              (2 * call.hx * call.layer.stride[2] + (call.layer.kernel_size[2] - 1)
                 - 2 * call.layer.padding[2])

\* C4: for a PassThrough layer, both one-step transforms return (vx, hx) unchanged.
C4_PassThroughIsIdentity ==
    (pc = "returned" /\ call.op \in OneStepOps /\ call.layer.kind \in PassThroughKinds)
    => ret = Return(PyTuple(<<call.vx, call.hx>>))

\* C4's case: the backward transform has been applied to a ReLU layer at (2, 3).
C4_Witness ==
    /\ Returned("_one_backward_projection")
    /\ call.layer.kind = "ReLU"
    /\ call.vx = 2 /\ call.hx = 3
    /\ ret.outcome = "return"

\* C5: _process_index unravels a flat integer i row-major to (i div W, i mod W) for
\* an (H, W) shape, and returns an index that is already a 2-tuple unchanged.
C5_ProcessIndexNormalises ==
    /\ (Returned("_process_index") /\ call.index.type = "int")
       => /\ ret.outcome = "return"
          /\ \E W \in 1..(MaxFlat + 1) :
                ret.value = PyTuple(<<call.index.val[1] \div W, call.index.val[1] % W>>)
    /\ (Returned("_process_index") /\ call.index.type = "tuple" /\ Len(call.index.val) = 2)
       => ret = Return(call.index)

\* C6: _process_index on an input that is neither a flat integer nor a 2-tuple ends
\* in an error; it returns no value, and in particular not None.
C6_InvalidIndexRaises ==
    (Returned("_process_index") /\ call.index.type # "int"
        /\ ~(call.index.type = "tuple" /\ Len(call.index.val) = 2))
    => ret.outcome = "raise"

\* C7: forward_projection and backward_projection with start_layer = end_layer and
\* a 2-tuple point return the point (the box holding just that point) unchanged.
C7_SameLayerIsIdentity ==
    (pc = "returned" /\ call.op \in ProjectionOps
        /\ call.index.type = "tuple" /\ Len(call.index.val) = 2
        /\ call.start_layer = call.end_layer)
    => /\ ret.outcome = "return"
       /\ \/ ret.value = call.index
          \/ /\ call.op = "backward_projection"
             /\ ret.value = PyTuple(call.index.val \o call.index.val)

\* C8: through two Convolution layers with kernel 3, stride 1, padding 1, the point
\* (5,5) of the second layer's output backward-projects to the box (3,3,7,7).
C8_TwoConvBox ==
    (Returned("backward_projection") /\ sic_model = TwoConvChain
        /\ call.index = PyTuple(<<5, 5>>) /\ call.start_layer = 2 /\ call.end_layer = 0)
    => /\ ret.outcome = "return"
       /\ ret.value = PyTuple(<<3, 3, 7, 7>>)

\* the number of times v occurs in seq
Count(seq, v) == Cardinality({i \in 1..Len(seq) : seq[i] = v})
Min(a, b) == IF a < b THEN a ELSE b

\* seq holds exactly the k largest elements of all, as a multiset
HoldsLargest(seq, all, k) ==
    /\ Len(seq) = k
    /\ \A v \in Elems : Count(seq, v) <= Count(all, v)
    /\ \A v \in Elems, w \in Elems :
          (Count(seq, v) < Count(all, v) /\ Count(seq, w) > 0) => v <= w

C9_HeapInv ==
    /\ Len(h) <= length
    /\ HoldsLargest(h, added, Min(length, Len(added)))
    /\ lastOp = "getTop" =>
          /\ HoldsLargest(top, added, Min(length, Len(added)))
          /\ \A i \in 1..Len(top), j \in 1..Len(top) : i < j => top[i] >= top[j]

\* C9: after any sequence of add calls a MaxHeap(N), N >= 0, holds at most N elements,
\* exactly the min(N, number of adds) largest added so far; getTop returns them in
\* non-increasing order and leaves the heap as it was.
C9_MaxHeapKeepsLargest ==
    /\ [](C9_HeapInv)
    /\ [][lastOp' = "getTop" => h' = h]_vars

\* C9's case: more elements were added than the heap holds, a larger one after a
\* smaller one, and getTop has returned.
C9_Witness ==
    /\ lastOp = "getTop"
    /\ length = 2
    /\ added = <<1, 3, 2, 3>>
    /\ top = <<3, 3>>

\* C10: no call of _process_index, the one-step transforms or the projections,
\* returning or raising, changes image_shape, layer_indicies, output_shapes or rf_sizes.
C10_FieldsUnchangedByCalls ==
    [][UNCHANGED <<image_shape, layer_indicies, output_shapes, rf_sizes>>]_vars

\* C10's case: a call that raised has ended on an object whose tables are as
\* constructed.
C10_Witness ==
    /\ Returned("_process_index")
    /\ ret.outcome = "raise"
    /\ image_shape = <<2, 4>>
    /\ layer_indicies = <<>> /\ output_shapes = <<>> /\ rf_sizes = <<>>

=============================================================================
